---- MODULE Spec2Model ----
(***************************************************************************)
(* Model of the Mosaic plugin (ginga/misc/plugins/Mosaic.py): the batch    *)
(* entry point mosaic(), the worker tasks mosaic_some(), ingest_one() as   *)
(* the GUI thread runs it, the plugin's controls, and split_n().           *)
(*                                                                         *)
(* Threads: one per call of mosaic() (drop_cb hands it to a non-GUI        *)
(* thread), one per task mosaic_some(group), and the GUI thread, which     *)
(* runs every ingest_one (gui_call waits for it) and every callback of a   *)
(* control. A step of the model is a stretch of one thread's code between  *)
(* two accesses to what the threads share.                                 *)
(***************************************************************************)
EXTENDS Integers, Sequences, FiniteSets, TLC

\* ------------------------------------------------------------- bounds
MaxBatches == 2      \* calls of mosaic() (drops) in one run
MaxPaths == 3        \* longest batch
MaxTotal == 4        \* paths dropped in one run, all batches together
MaxImage == 3        \* distinct images load_image(paths[0]) can return
MaxThreads == 2      \* largest value of the num_threads setting
MaxFov == 2          \* largest value of the fov_deg setting
MaxEvents == 1       \* things that happen to a run from outside, besides
                     \* the drops: uses of the controls and failing tiles
MaxSplitLen == 5     \* longest list given to split_n on its own
MaxSplitSz == 4      \* largest chunk size given to split_n on its own

Batches == 1..MaxBatches
Images == 1..MaxImage

\* What load_image returns: an image, known here by a number, with its
\* centre on the sky and the median of its pixels.
Centre(im) == im
Median(im) == im

NoFrame == 0         \* self.img_mosaic == None
NoImage == 0         \* no image loaded
NoThread == <<>>     \* nobody (lock owner, GUI work item)
NoReport == <<>>     \* update_progress was not called yet
NoDec == <<>>        \* the priming step has not decided yet
Unbound == -1        \* a local variable that was never assigned
NoExc == "none"      \* no exception has left the task

Min(a, b) == IF a < b THEN a ELSE b
Abs(a) == IF a < 0 THEN -a ELSE a

\* image.deltaStarsRaDecDeg between two centres
Dist(c1, c2) == Abs(c1 - c2)

\* ------------------------------------------------------------ split_n
\* len(range(0, n, sz)) for sz /= 0
RangeLen(n, sz) == IF sz > 0 THEN (n + sz - 1) \div sz ELSE 0

split_n_drop_tail(lst, sz) ==
    [k \in 1..(Len(lst) \div sz) |-> SubSeq(lst, (k - 1) * sz + 1, k * sz)]

\* [ lst[i:i+sz] for i in range(0, len(lst), sz) ]
split_n(lst, sz) ==
    [k \in 1..RangeLen(Len(lst), sz) |->
        SubSeq(lst, (k - 1) * sz + 1, Min(k * sz, Len(lst)))]

RECURSIVE Concat(_)
Concat(gs) == IF gs = <<>> THEN <<>> ELSE Head(gs) \o Concat(Tail(gs))

\* paths[1:]
Rest(ps) == IF ps = <<>> THEN <<>> ELSE Tail(ps)

VARIABLES
    \* fields of the plugin object
    img_mosaic,      \* NoFrame, or the image the current frame was made from
    bg_ref,          \* self.bg_ref
    ev_intr,         \* self.ev_intr.isSet()
    lock,            \* owner of self.lock
    ingest_count,    \* self.ingest_count
    total_files,     \* self.total_files
    settings,        \* fov_deg, num_threads, drop_creates_new_mosaic,
                     \* match_bg
    \* threads
    mpc,             \* mpc[b]: where the call mosaic() of batch b stands
    bpaths,          \* bpaths[b]: the paths of batch b
    bflag,           \* bflag[b]: its new_mosaic argument
    image,           \* image[b]: its local image, loaded from paths[0]
    dec,             \* dec[b]: its local fov_deg and what the tests decided
    workers,         \* workers[b]: the mosaic_some tasks of batch b
    gui,             \* the thread whose ingest_one the GUI thread is running
    \* what was observed (written, never read, by the program)
    primed,          \* primed[b]: the priming ingest_one of b has returned
    first_done,      \* first_done[b]: path of b's first finished ingestion
    tiles,           \* tiles[b][i]: times path i of b was put into a frame
    progress,        \* progress[b]: last <<count, total>> reported for b
    progress_ok,     \* progress_ok[b]: the reports of b never went down
    done_reports,    \* done_reports[b]: completion reports emitted for b
    bfail,           \* bfail[b]: a tile or a step of b failed
    cancelled,       \* cancelled[b]: eval_intr was called while b was running
    events,          \* uses of the controls and failed tiles so far
    \* more of what was observed
    bthreads,        \* bthreads[b]: the num_threads setting when b was dropped
    bg_matched,      \* every tile matched so far was matched to the
                     \* reference of the frame it went into
    frameless,       \* ingest_one has run while img_mosaic was None
    frames_made,     \* frames_made[b]: frames that batch b has created
    match_used,      \* match_used[b]: the values of match_bg that the tiles
                     \* of b were put into a frame with
    \* split_n on its own
    sp_lst, sp_sz, sp_out, sp_pc

fields == <<img_mosaic, bg_ref, ev_intr, lock, ingest_count, total_files,
            settings>>
threads == <<mpc, bpaths, bflag, image, dec, workers, gui>>
observed == <<primed, first_done, tiles, progress, progress_ok, done_reports,
              bfail, cancelled>>
noted == <<bthreads, bg_matched, frameless, frames_made, match_used>>
split_vars == <<sp_lst, sp_sz, sp_out, sp_pc>>
vars == <<fields, threads, observed, events, noted, split_vars>>

\* The batches a drop can deliver: n paths, named 1..n.
PathLists == {[i \in 1..n |-> i] : n \in 0..MaxPaths}

\* ---------------------------------------------------------------- Init
\* self.settings.setDefaults(...): num_threads=4 is at least the length of
\* every paths[1:] here, as MaxThreads is
Defaults ==
    [fov_deg |-> 1, num_threads |-> MaxThreads, drop_new |-> TRUE,
     match_bg |-> FALSE]

\* __init__: img_mosaic = None, bg_ref = 0.0, the event clear, the lock
\* free, ingest_count = 0, total_files = 0, and the settings as
\* self.settings.load(onError='silent') leaves them: the defaults, or the
\* preferences saved earlier
InitWith(saved) ==
    /\ img_mosaic = NoFrame
    /\ bg_ref = 0
    /\ ev_intr = FALSE
    /\ lock = NoThread
    /\ ingest_count = 0
    /\ total_files = 0
    /\ settings = saved
    /\ mpc = [b \in Batches |-> "idle"]
    /\ bpaths = [b \in Batches |-> <<>>]
    /\ bflag = [b \in Batches |-> FALSE]
    /\ image = [b \in Batches |-> NoImage]
    /\ dec = [b \in Batches |-> NoDec]
    /\ workers = [b \in Batches |-> <<>>]
    /\ gui = NoThread
    /\ primed = [b \in Batches |-> FALSE]
    /\ first_done = [b \in Batches |-> 0]
    /\ tiles = [b \in Batches |-> [i \in 1..MaxPaths |-> 0]]
    /\ progress = [b \in Batches |-> NoReport]
    /\ progress_ok = [b \in Batches |-> TRUE]
    /\ done_reports = [b \in Batches |-> 0]
    /\ bfail = [b \in Batches |-> FALSE]
    /\ cancelled = [b \in Batches |-> FALSE]
    /\ events = 0
    /\ bthreads = [b \in Batches |-> MaxThreads]
    /\ bg_matched = TRUE
    /\ frameless = FALSE
    /\ frames_made = [b \in Batches |-> 0]
    /\ match_used = [b \in Batches |-> {}]

\* no preferences saved: the defaults
InitPlugin == InitWith(Defaults)

InitSplitIdle ==
    /\ sp_lst = <<>>
    /\ sp_sz = 1
    /\ sp_out = <<>>
    /\ sp_pc = "idle"

Init ==
    /\ InitPlugin
    /\ InitSplitIdle

\* ------------------------------------------------------------ helpers
MThread(b) == <<b>>
WThread(b, k) == <<b, k>>

MosaicOver(b) == mpc[b] \in {"done", "raised"}
WorkerOver(w) == w.pc \in {"done", "raised"}
\* mosaic() of b has returned or raised, and so has every task it started
BatchOver(b) ==
    /\ MosaicOver(b)
    /\ \A k \in 1..Len(workers[b]) : WorkerOver(workers[b][k])
\* mosaic() of b is past its reset of the count and of the event, and the
\* batch is not over
Running(b) == mpc[b] \notin {"idle", "m351", "m355"} /\ ~BatchOver(b)

RECURSIVE SumLen(_)
SumLen(b) == IF b = 0 THEN 0 ELSE Len(bpaths[b]) + SumLen(b - 1)
PathsDropped == SumLen(MaxBatches)

\* self.update_progress(float(count)/self.total_files), for batch b
Report(b, count, total) ==
    /\ progress' = [progress EXCEPT ![b] = <<count, total>>]
    /\ progress_ok' = [progress_ok EXCEPT ![b] =
         @ /\ (progress[b] = NoReport
               \/ progress[b][1] * total <= count * progress[b][2])]

\* an exception leaves mosaic() of b
MosaicRaises(b) ==
    /\ mpc' = [mpc EXCEPT ![b] = "raised"]
    /\ image' = [image EXCEPT ![b] = NoImage]
    /\ dec' = [dec EXCEPT ![b] = NoDec]
    /\ bfail' = [bfail EXCEPT ![b] = TRUE]

\* ------------------------------------------------------------- mosaic()
\* drop_cb, in the GUI thread: new_mosaic is the drop_creates_new_mosaic
\* setting, and mosaic(paths, new_mosaic) goes to a non-GUI thread
drop_cb(b, ps) ==
    /\ gui = NoThread
    /\ mpc[b] = "idle"
    /\ \A a \in Batches : a < b => mpc[a] # "idle"
    /\ PathsDropped + Len(ps) <= MaxTotal
    /\ mpc' = [mpc EXCEPT ![b] = "m351"]
    /\ bpaths' = [bpaths EXCEPT ![b] = ps]
    /\ bflag' = [bflag EXCEPT ![b] = settings.drop_new]
    /\ bthreads' = [bthreads EXCEPT ![b] = settings.num_threads]
    /\ UNCHANGED <<fields, image, dec, workers, gui, observed, events,
                   bg_matched, frameless, frames_made, match_used,
                   split_vars>>

\* self.total_files = len(paths); if self.total_files == 0: return
M351(b) ==
    /\ mpc[b] = "m351"
    /\ total_files' = Len(bpaths[b])
    /\ mpc' = [mpc EXCEPT ![b] = IF Len(bpaths[b]) = 0 THEN "done" ELSE "m355"]
    /\ UNCHANGED <<img_mosaic, bg_ref, ev_intr, lock, ingest_count, settings>>
    /\ UNCHANGED <<bpaths, bflag, image, dec, workers, gui, observed, events,
                   noted, split_vars>>

\* self.ingest_count = 0; self.ev_intr.clear(); ...; init_progress; then
\* image = self.fv.load_image(paths[0]): an image, or the load error, which
\* leaves mosaic()
M355(b) ==
    /\ mpc[b] = "m355"
    /\ ingest_count' = 0
    /\ ev_intr' = FALSE
    /\ \/ /\ \E im \in Images : image' = [image EXCEPT ![b] = im]
          /\ mpc' = [mpc EXCEPT ![b] = "m367"]
          /\ UNCHANGED <<dec, bfail, events>>
       \/ /\ events < MaxEvents
          /\ events' = events + 1
          /\ MosaicRaises(b)
    /\ UNCHANGED <<img_mosaic, bg_ref, lock, total_files, settings>>
    /\ UNCHANGED <<bpaths, bflag, workers, gui, primed, first_done, tiles,
                   progress, progress_ok, done_reports, cancelled, noted,
                   split_vars>>

DistExceedsOrEquals(dist, fov_deg) == dist >= fov_deg

\* if dist > fov_deg:
DistExceeds(dist, fov_deg) == dist > fov_deg

NoFrameOnly(new_mosaic, frame) == frame = NoFrame

FlagOnly(new_mosaic, frame) == new_mosaic

\* if new_mosaic or (self.img_mosaic == None):
NewOrNoFrame(new_mosaic, frame) == new_mosaic \/ frame = NoFrame

\* The locals of the priming step once a test is made: the frame and the
\* flag it saw, the distance it computed (0 with no frame to measure from),
\* the fov_deg it read, and whether it goes on to prepare_mosaic.
Decision(frame, flag, im, fov_deg, created) ==
    [frame |-> frame, flag |-> flag,
     dist |-> IF frame = NoFrame THEN 0 ELSE Dist(Centre(frame), Centre(im)),
     fov |-> fov_deg, created |-> created, final |-> created]

\* fov_deg = self.settings.get('fov_deg'); the test of line 367 and, when it
\* holds, prepare_mosaic up to self.bg_ref = iqcalc.get_median(data_np)
M367(b) ==
    /\ mpc[b] = "m367"
    /\ IF NewOrNoFrame(bflag[b], img_mosaic)
       THEN /\ bg_ref' = Median(image[b])
            /\ mpc' = [mpc EXCEPT ![b] = "m227"]
            /\ dec' = [dec EXCEPT ![b] =
                 Decision(img_mosaic, bflag[b], image[b], settings.fov_deg,
                          TRUE)]
       ELSE /\ mpc' = [mpc EXCEPT ![b] = "m371"]
            /\ dec' = [dec EXCEPT ![b] =
                 Decision(img_mosaic, bflag[b], image[b], settings.fov_deg,
                          FALSE)]
            /\ UNCHANGED bg_ref
    /\ UNCHANGED <<img_mosaic, ev_intr, lock, ingest_count, total_files,
                   settings>>
    /\ UNCHANGED <<bpaths, bflag, image, workers, gui, observed, events,
                   noted, split_vars>>

SkipPriming == "m386"

\* on to line 385: self.fv.gui_call(self.fv.error_wrap, self.ingest_one, image)
ToPriming == "m385"

\* the else branch: self.img_mosaic.get_center() (an AttributeError when the
\* frame is gone by now), the distance to the image's centre, and
\* prepare_mosaic when it exceeds the fov_deg read at line 364
M371(b) ==
    /\ mpc[b] = "m371"
    /\ IF img_mosaic = NoFrame
       THEN /\ MosaicRaises(b)
            /\ UNCHANGED bg_ref
       ELSE /\ UNCHANGED <<bfail, image>>
            /\ IF DistExceeds(Dist(Centre(img_mosaic), Centre(image[b])),
                              dec[b].fov)
               THEN /\ bg_ref' = Median(image[b])
                    /\ mpc' = [mpc EXCEPT ![b] = "m227"]
                    /\ dec' = [dec EXCEPT ![b] =
                         [Decision(img_mosaic, bflag[b], image[b], dec[b].fov,
                                   TRUE) EXCEPT !.final = TRUE]]
               ELSE /\ mpc' = [mpc EXCEPT ![b] = ToPriming]
                    /\ dec' = [dec EXCEPT ![b] =
                         [Decision(img_mosaic, bflag[b], image[b], dec[b].fov,
                                   FALSE) EXCEPT !.final = TRUE]]
                    /\ UNCHANGED bg_ref
    /\ UNCHANGED <<img_mosaic, ev_intr, lock, ingest_count, total_files,
                   settings>>
    /\ UNCHANGED <<bpaths, bflag, workers, gui, primed, first_done, tiles,
                   progress, progress_ok, done_reports, cancelled, events,
                   noted, split_vars>>

\* the rest of prepare_mosaic: self.img_mosaic = img_mosaic
M227(b) ==
    /\ mpc[b] = "m227"
    /\ img_mosaic' = image[b]
    /\ mpc' = [mpc EXCEPT ![b] = ToPriming]
    /\ frames_made' = [frames_made EXCEPT ![b] = @ + 1]
    /\ UNCHANGED <<bthreads, bg_matched, frameless, match_used>>
    /\ UNCHANGED <<bg_ref, ev_intr, lock, ingest_count, total_files, settings>>
    /\ UNCHANGED <<bpaths, bflag, image, dec, workers, gui, observed, events,
                   split_vars>>

\* ---------------------------------------------------------- ingest_one
\* The threads waiting in self.fv.gui_call(self.fv.error_wrap,
\* self.ingest_one, image): mosaic() at line 385, a task at line 334.
Waiting ==
    {MThread(b) : b \in {a \in Batches : mpc[a] = "m385"}}
    \cup {t \in {WThread(b, k) : b \in Batches, k \in 1..MaxPaths} :
             /\ t[2] <= Len(workers[t[1]])
             /\ workers[t[1]][t[2]].pc = "w334"}

BatchOf(t) == t[1]
\* the path whose image thread t brought
TileOf(t) ==
    IF Len(t) = 1 THEN 1
    ELSE workers[t[1]][t[2]].grp[workers[t[1]][t[2]].i]

AfterIngestRaising(failed) == IF failed THEN "raised" ELSE "w335"

\* where a task goes on after line 334: fv.error_wrap has kept an error of
\* ingest_one to itself, so on to line 335, inside the with block
AfterIngest(failed) == "w335"

\* gui_call returns to thread t
Returned(t, failed) ==
    /\ IF Len(t) = 1
       THEN /\ mpc' = [mpc EXCEPT ![t[1]] = "m386"]
            /\ primed' = [primed EXCEPT ![t[1]] = TRUE]
            /\ UNCHANGED workers
       ELSE /\ workers' = [workers EXCEPT
                 ![t[1]][t[2]].pc = AfterIngest(failed)]
            /\ UNCHANGED <<mpc, primed>>
    /\ first_done' = [first_done EXCEPT ![BatchOf(t)] =
                        IF @ = 0 THEN TileOf(t) ELSE @]
    /\ bfail' = [bfail EXCEPT ![BatchOf(t)] = @ \/ failed]

\* bg_ref = None; if match_bg: bg_ref = self.bg_ref
BgRefUsed(match_bg, ref) == IF match_bg THEN <<ref>> ELSE <<>>

\* ingest_one up to self.img_mosaic.mosaic_inline(...), run by the GUI thread
\* for thread t: the tile is written into the frame, with the background
\* reference of lines 244-246, or the call raises (an error of
\* mosaic_inline, or no frame) and error_wrap reports it
IngestInline(t) ==
    /\ gui = NoThread
    /\ t \in Waiting
    /\ \/ /\ img_mosaic # NoFrame
          /\ gui' = t
          /\ tiles' = [tiles EXCEPT ![BatchOf(t)][TileOf(t)] = @ + 1]
          /\ workers' = IF Len(t) = 2 /\ cancelled[BatchOf(t)]
                        THEN [workers EXCEPT
                                ![t[1]][t[2]].post = @ + 1,
                                ![t[1]][t[2]].late = @ \/ ~ev_intr]
                        ELSE workers
          /\ bg_matched' =
               (bg_matched /\ BgRefUsed(settings.match_bg, bg_ref)
                                \in {<<>>, <<Median(img_mosaic)>>})
          /\ match_used' = [match_used EXCEPT ![BatchOf(t)] =
                               @ \cup {settings.match_bg}]
          /\ UNCHANGED <<mpc, primed, first_done, bfail, events, frameless>>
       \/ /\ img_mosaic # NoFrame
          /\ events < MaxEvents
          /\ events' = events + 1
          /\ Returned(t, TRUE)
          /\ UNCHANGED <<gui, tiles, bg_matched, frameless, match_used>>
       \/ /\ img_mosaic = NoFrame
          /\ frameless' = TRUE
          /\ Returned(t, TRUE)
          /\ UNCHANGED <<gui, tiles, events, bg_matched, match_used>>
    /\ UNCHANGED <<bthreads, frames_made>>
    /\ UNCHANGED <<fields, bpaths, bflag, image, dec, progress, progress_ok,
                   done_reports, cancelled, split_vars>>

\* self.ingest_count += 1, and the return of gui_call
IngestCount(t) ==
    /\ t # NoThread
    /\ gui = t
    /\ gui' = NoThread
    /\ ingest_count' = ingest_count + 1
    /\ Returned(t, FALSE)
    /\ UNCHANGED <<img_mosaic, bg_ref, ev_intr, lock, total_files, settings>>
    /\ UNCHANGED <<bpaths, bflag, image, dec, tiles, progress, progress_ok,
                   done_reports, cancelled, events, noted, split_vars>>

\* the positions 2..n of paths[1:] in paths
RestIndex(ps) == [i \in 1..(Len(ps) - 1) |-> i + 1]

TasksSkipFirst(groups) ==
    [k \in 1..Len(groups) |->
        [grp |-> groups[k], i |-> 2, pc |-> "w329", count |-> Unbound,
         post |-> 0, late |-> FALSE, brk |-> FALSE, exc |-> NoExc]]

\* for group in groups: self.fv.nongui_do(self.mosaic_some, group). A task
\* has its group, its place i in it, its local count, the tiles it put into
\* a frame after a Stop (post), whether it put one into a frame after a
\* Stop that a later mosaic() had cleared (late), whether it left its loop
\* by the break of line 330 (brk), and the exception that ended it (exc).
Tasks(groups) ==
    [k \in 1..Len(groups) |->
        [grp |-> groups[k], i |-> 1, pc |-> "w329", count |-> Unbound,
         post |-> 0, late |-> FALSE, brk |-> FALSE, exc |-> NoExc]]

\* self.update_progress(float(self.ingest_count)/self.total_files) (a
\* ZeroDivisionError when total_files is 0 by now);
\* num_threads = self.settings.get('num_threads'); groups = split_n(paths[1:],
\* num_threads) (range() raises ValueError on a step of 0); the tasks; return
M386(b) ==
    /\ mpc[b] = "m386"
    /\ IF total_files = 0
       THEN /\ MosaicRaises(b)
            /\ UNCHANGED <<progress, progress_ok, workers>>
       ELSE /\ Report(b, ingest_count, total_files)
            /\ IF settings.num_threads = 0
               THEN /\ MosaicRaises(b)
                    /\ UNCHANGED workers
               ELSE /\ mpc' = [mpc EXCEPT ![b] = "done"]
                    /\ image' = [image EXCEPT ![b] = NoImage]
                    /\ dec' = [dec EXCEPT ![b] = NoDec]
                    /\ workers' = [workers EXCEPT ![b] =
                         Tasks(split_n(RestIndex(bpaths[b]),
                                       settings.num_threads))]
                    /\ UNCHANGED bfail
    /\ UNCHANGED <<fields, bpaths, bflag, gui, primed, first_done, tiles,
                   done_reports, cancelled, events, noted, split_vars>>

\* --------------------------------------------------------- mosaic_some
IsWorker(b, k) == k <= Len(workers[b])

\* what no step of a task changes
TaskLeaves ==
    UNCHANGED <<img_mosaic, bg_ref, ev_intr, ingest_count, total_files,
                settings, mpc, bpaths, bflag, image, dec, gui, primed,
                first_done, tiles, cancelled, noted, split_vars>>

LoopIgnoringFlag(w, flag) == IF w.i > Len(w.grp) THEN "w339" ELSE "w331"

\* for url in paths: if self.ev_intr.isSet(): break
Loop(w, flag) == IF w.i > Len(w.grp) \/ flag THEN "w339" ELSE "w331"

W329(b, k) ==
    /\ IsWorker(b, k)
    /\ workers[b][k].pc = "w329"
    /\ workers' = [workers EXCEPT
         ![b][k].pc = Loop(workers[b][k], ev_intr),
         ![b][k].brk = workers[b][k].i <= Len(workers[b][k].grp) /\ ev_intr]
    /\ UNCHANGED <<lock, progress, progress_ok, done_reports, bfail, events>>
    /\ TaskLeaves

\* image = self.fv.load_image(url): the load error, which nothing in
\* mosaic_some catches, or the image, and then "with self.lock:"
W331(b, k) ==
    /\ IsWorker(b, k)
    /\ workers[b][k].pc = "w331"
    /\ \/ /\ lock = NoThread
          /\ lock' = WThread(b, k)
          /\ workers' = [workers EXCEPT ![b][k].pc = "w334"]
          /\ UNCHANGED <<bfail, events>>
       \/ /\ events < MaxEvents
          /\ events' = events + 1
          /\ workers' = [workers EXCEPT ![b][k].pc = "raised",
                                         ![b][k].exc = "load"]
          /\ bfail' = [bfail EXCEPT ![b] = TRUE]
          /\ UNCHANGED lock
    /\ UNCHANGED <<progress, progress_ok, done_reports>>
    /\ TaskLeaves

\* count = self.ingest_count;
\* self.update_progress(float(count)/self.total_files); the lock is released
\* on the way out of the with block, also by the ZeroDivisionError
W335(b, k) ==
    /\ IsWorker(b, k)
    /\ workers[b][k].pc = "w335"
    /\ lock' = NoThread
    /\ IF total_files = 0
       THEN /\ workers' = [workers EXCEPT ![b][k].pc = "raised",
                                          ![b][k].exc = "ZeroDivisionError",
                                          ![b][k].count = ingest_count]
            /\ bfail' = [bfail EXCEPT ![b] = TRUE]
            /\ UNCHANGED <<progress, progress_ok>>
       ELSE /\ workers' = [workers EXCEPT ![b][k].pc = "w329",
                                          ![b][k].count = ingest_count,
                                          ![b][k].i = @ + 1]
            /\ Report(b, ingest_count, total_files)
            /\ UNCHANGED bfail
    /\ UNCHANGED <<done_reports, events>>
    /\ TaskLeaves

\* if count == self.total_files: end_progress and the "Done." status; an
\* UnboundLocalError when the loop never assigned count
W339(b, k) ==
    /\ IsWorker(b, k)
    /\ workers[b][k].pc = "w339"
    /\ IF workers[b][k].count = Unbound
       THEN /\ workers' = [workers EXCEPT
                 ![b][k].pc = "raised",
                 ![b][k].exc = "UnboundLocalError"]
            /\ bfail' = [bfail EXCEPT ![b] = TRUE]
            /\ UNCHANGED done_reports
       ELSE /\ workers' = [workers EXCEPT ![b][k].pc = "done"]
            /\ done_reports' = [done_reports EXCEPT ![b] =
                 IF workers[b][k].count = total_files THEN @ + 1 ELSE @]
            /\ UNCHANGED bfail
    /\ UNCHANGED <<lock, progress, progress_ok, events>>
    /\ TaskLeaves

\* --------------------------------------------------------- the controls
\* Their callbacks run in the GUI thread, so never while it runs
\* ingest_one. Control counts one use and leaves the rest alone.
Control ==
    /\ gui = NoThread
    /\ events < MaxEvents
    /\ events' = events + 1
    /\ UNCHANGED <<bg_ref, lock, ingest_count, total_files>>
    /\ UNCHANGED <<threads, primed, first_done, tiles, progress, progress_ok,
                   done_reports, bfail, noted, split_vars>>

\* the Stop button, enabled by init_progress: self.ev_intr.set()
eval_intr ==
    /\ \E b \in Batches : mpc[b] \notin {"idle", "m351", "m355"}
    /\ ev_intr' = TRUE
    /\ cancelled' = [b \in Batches |-> cancelled[b] \/ Running(b)]
    /\ UNCHANGED <<img_mosaic, settings>>
    /\ Control

\* the New Mosaic button: self.img_mosaic = None
new_mosaic_cb ==
    /\ img_mosaic # NoFrame
    /\ img_mosaic' = NoFrame
    /\ UNCHANGED <<ev_intr, settings, cancelled>>
    /\ Control

\* the Close button: self.img_mosaic = None; the plugin is stopped (and can
\* be started again)
close ==
    /\ img_mosaic # NoFrame
    /\ img_mosaic' = NoFrame
    /\ UNCHANGED <<ev_intr, settings, cancelled>>
    /\ Control

\* self.settings.set(fov_deg=fov_deg)
set_fov_cb(v) ==
    /\ settings.fov_deg # v
    /\ settings' = [settings EXCEPT !.fov_deg = v]
    /\ UNCHANGED <<img_mosaic, ev_intr, cancelled>>
    /\ Control

\* self.settings.set(num_threads=num_threads)
set_num_threads_cb(v) ==
    /\ settings.num_threads # v
    /\ settings' = [settings EXCEPT !.num_threads = v]
    /\ UNCHANGED <<img_mosaic, ev_intr, cancelled>>
    /\ Control

\* self.settings.set(match_bg=tf)
match_bg_cb(tf) ==
    /\ settings.match_bg # tf
    /\ settings' = [settings EXCEPT !.match_bg = tf]
    /\ UNCHANGED <<img_mosaic, ev_intr, cancelled>>
    /\ Control

\* self.settings.set(drop_creates_new_mosaic=tf)
drop_new_cb(tf) ==
    /\ settings.drop_new # tf
    /\ settings' = [settings EXCEPT !.drop_new = tf]
    /\ UNCHANGED <<img_mosaic, ev_intr, cancelled>>
    /\ Control

\* ----------------------------------------------------------------- Next
MosaicStep ==
    \E b \in Batches :
        \/ M351(b)
        \/ M355(b)
        \/ M367(b)
        \/ M371(b)
        \/ M227(b)
        \/ M386(b)

WorkerStep ==
    \E b \in Batches, k \in 1..MaxPaths :
        \/ W329(b, k)
        \/ W331(b, k)
        \/ W335(b, k)
        \/ W339(b, k)

GuiStep ==
    \E t \in Waiting \cup {gui} :
        \/ IngestInline(t)
        \/ IngestCount(t)

\* what the program does once it was asked to
Program == MosaicStep \/ WorkerStep \/ GuiStep

Controls ==
    \/ eval_intr
    \/ new_mosaic_cb
    \/ close
    \/ \E v \in 1..MaxFov : set_fov_cb(v)
    \/ \E v \in 0..MaxThreads : set_num_threads_cb(v)
    \/ \E tf \in BOOLEAN : drop_new_cb(tf)
    \/ \E tf \in BOOLEAN : match_bg_cb(tf)

Drop == \E b \in Batches, ps \in PathLists : drop_cb(b, ps)

Next == Program \/ Controls \/ Drop

\* Drops at any time: batches may overlap.
Spec == Init /\ [][Next]_vars

\* One batch at a time: files are dropped only once every earlier batch is
\* over.
DropAlone ==
    \E b \in Batches, ps \in PathLists :
        /\ \A a \in Batches : a < b => BatchOver(a)
        /\ drop_cb(b, ps)

NextAlone == Program \/ Controls \/ DropAlone

\* Every thread that can take a step takes one in the end: the GUI thread
\* runs its queue and the thread pool runs the tasks handed to it.
FairAlone == Init /\ [][NextAlone]_vars /\ WF_vars(Program)

\* The plugin started with saved preferences in which num_threads is 1 and
\* drop_creates_new_mosaic is off, and a user who drops files and touches no
\* control.
InitSaved ==
    /\ InitWith([Defaults EXCEPT !.num_threads = 1, !.drop_new = FALSE])
    /\ InitSplitIdle

NextHandsOff == Program \/ Drop

HandsOff == InitSaved /\ [][NextHandsOff]_vars

\* The same plugin and user, one batch at a time, the threads being run as
\* under FairAlone.
NextSavedAlone == Program \/ DropAlone

FairSavedAlone == InitSaved /\ [][NextSavedAlone]_vars /\ WF_vars(Program)

\* ------------------------------------------------- split_n on its own
SplitLists ==
    UNION {[1..n -> 1..2] : n \in 0..MaxSplitLen}

InitSplit ==
    /\ InitPlugin
    /\ sp_lst \in SplitLists
    /\ sp_sz \in 0..MaxSplitSz
    /\ sp_out = <<>>
    /\ sp_pc = "call"

SplitLeaves ==
    UNCHANGED <<fields, threads, observed, events, noted, sp_lst, sp_sz>>

\* groups = split_n(lst, sz)
SplitReturns ==
    /\ sp_pc = "call"
    /\ sp_sz # 0
    /\ sp_out' = split_n(sp_lst, sp_sz)
    /\ sp_pc' = "returned"
    /\ SplitLeaves

\* range(0, len(lst), 0): ValueError
SplitRaises ==
    /\ sp_pc = "call"
    /\ sp_sz = 0
    /\ sp_pc' = "raised"
    /\ UNCHANGED sp_out
    /\ SplitLeaves

NextSplit == SplitReturns \/ SplitRaises

SplitSpec == InitSplit /\ [][NextSplit]_vars

\* =================================================================
\* The claims
\* =================================================================
Clean(b) == ~bfail[b] /\ ~cancelled[b]
NonEmpty(b) == mpc[b] # "idle" /\ Len(bpaths[b]) >= 1
AllIngestedOnce(b) == \A i \in 1..Len(bpaths[b]) : tiles[b][i] = 1

\* C1: in every batch, the tasks are started only after the priming
\* ingest_one of paths[0] has returned, and the first ingestion of the batch
\* to finish is that of paths[0].
C1_PrimedBeforeWorkers ==
    \A b \in Batches :
        /\ workers[b] # <<>> => primed[b]
        /\ first_done[b] \in {0, 1}

\* a task of a batch has ingested its tile, after the priming step did
C1_Witness ==
    \E b \in Batches :
        /\ Len(workers[b]) >= 1
        /\ first_done[b] = 1
        /\ tiles[b][2] = 1

\* C2: whenever an ingest_one is in progress (the tile is in the frame, the
\* count not yet incremented), the thread it runs for holds self.lock.
C2_IngestUnderLock == gui # NoThread => lock = gui

\* C3: the ingested count never exceeds the total file count.
C3_CountWithinTotal == ingest_count <= total_files

\* C4: for lists at least as long as workerCount, split_n returns exactly
\* workerCount groups whose sizes differ by at most 1.
C4_WorkerCountGroups ==
    (sp_pc = "returned" /\ sp_sz >= 1 /\ Len(sp_lst) >= sp_sz) =>
        /\ Len(sp_out) = sp_sz
        /\ \A i, j \in 1..Len(sp_out) :
               Len(sp_out[i]) - Len(sp_out[j]) <= 1

\* C5: for workerCount >= 1 the groups of split_n, concatenated in order,
\* are the list it was given.
C5_ConcatIsRest ==
    (sp_pc = "returned" /\ sp_sz >= 1) => Concat(sp_out) = sp_lst

\* several groups, the last one shorter than the others
C5_Witness ==
    /\ sp_pc = "returned"
    /\ Len(sp_out) >= 2
    /\ Len(sp_lst) % sp_sz # 0
    /\ Concat(sp_out) = sp_lst

\* C6: once the priming step has made its tests, it goes on to create a
\* frame exactly when it saw no frame, or the new_mosaic flag, or a distance
\* strictly greater than fov_deg; and it creates one only then.
C6_NewFrameIff ==
    \A b \in Batches :
        /\ (dec[b] # NoDec /\ dec[b].final) =>
               (dec[b].created <=>
                   \/ dec[b].frame = NoFrame
                   \/ dec[b].flag
                   \/ dec[b].dist > dec[b].fov)
        /\ mpc[b] = "m227" => (dec[b] # NoDec /\ dec[b].created)

\* the boundary: a frame, no flag, a distance equal to fov_deg, no new frame
C6_Witness ==
    \E b \in Batches :
        /\ dec[b] # NoDec
        /\ dec[b].final
        /\ dec[b].frame # NoFrame
        /\ ~dec[b].flag
        /\ dec[b].dist = dec[b].fov
        /\ ~dec[b].created
        /\ mpc[b] = "m385"

\* C7: a batch of N >= 1 paths that runs alone, in which nothing fails and
\* that is not cancelled, gets over with every path ingested exactly once
\* and an ingested count of N; and no path is ever ingested twice.
C7_AllIngested ==
    \A b \in Batches :
        /\ [](Clean(b) => \A i \in 1..MaxPaths : tiles[b][i] <= 1)
        /\ (mpc[b] = "m351" /\ Len(bpaths[b]) >= 1) ~>
                (\/ ~Clean(b)
                 \/ /\ BatchOver(b)
                    /\ AllIngestedOnce(b)
                    /\ ingest_count = Len(bpaths[b]))

\* a batch of three paths and its tasks are over, all ingested
C7_Witness ==
    \E b \in Batches :
        /\ Clean(b)
        /\ BatchOver(b)
        /\ Len(bpaths[b]) >= 3
        /\ Len(workers[b]) >= 1
        /\ AllIngestedOnce(b)
        /\ ingest_count = Len(bpaths[b])

\* C8: the fractions reported for a batch never go down, each lies in
\* [0,1], and the last one of a batch that is over, without a failure or a
\* cancellation, is 1.0.
C8_ProgressToOne ==
    \A b \in Batches :
        /\ progress_ok[b]
        /\ progress[b] # NoReport =>
               (0 <= progress[b][1] /\ progress[b][1] <= progress[b][2])
        /\ (NonEmpty(b) /\ BatchOver(b) /\ Clean(b)) =>
               (progress[b] # NoReport /\ progress[b][1] = progress[b][2])

\* C9: a batch of N >= 1 paths that is over has emitted its completion
\* report.
C9_DoneReported ==
    \A b \in Batches :
        (NonEmpty(b) /\ BatchOver(b)) => done_reports[b] >= 1

\* C10: after a cancellation request made while its batch runs, a task
\* ingests at most one tile.
C10_AtMostOneAfterCancel ==
    \A b \in Batches :
        \A k \in 1..Len(workers[b]) : workers[b][k].post <= 1

\* C11: a task that left its loop because it saw the cancellation flag, be
\* it before its first tile or after some, returns: no exception ends it.
C11_CancelledTaskReturns ==
    \A b \in Batches :
        \A k \in 1..Len(workers[b]) :
            (workers[b][k].brk /\ WorkerOver(workers[b][k])) =>
                (workers[b][k].pc = "done" /\ workers[b][k].exc = NoExc)

\* C12: the failure of a tile ends no task: a task whose load_image or
\* ingest_one failed is not ended by that error, and so goes on to the paths
\* left in its group.
C12_TileFailureEndsNoTask ==
    \A b \in Batches :
        \A k \in 1..Len(workers[b]) :
            ~(workers[b][k].pc = "raised" /\ workers[b][k].exc = "load")

\* mosaic() of b returned and every path of b was handed to ingest_one or
\* failed to load: paths[0] by the priming step, the others by the tasks,
\* each of which went through its whole group
AllAttempted(b) ==
    /\ mpc[b] = "done"
    /\ primed[b]
    /\ \A k \in 1..Len(workers[b]) :
           /\ WorkerOver(workers[b][k])
           /\ workers[b][k].i > Len(workers[b][k].grp)

\* C13: once every path of a batch that was not cancelled has been
\* attempted, the last progress reported for it is 100%, also when some of
\* its tiles were skipped.
C13_FullProgressWhenAttempted ==
    \A b \in Batches :
        (NonEmpty(b) /\ ~cancelled[b] /\ AllAttempted(b)) =>
            (progress[b] # NoReport /\ progress[b][1] = progress[b][2])

\* C14: a batch of N >= 1 paths dropped while the num_threads setting is 0
\* does not begin: none of its paths is ingested and its priming step is
\* not run.
C14_ZeroThreadsDoesNotBegin ==
    \A b \in Batches :
        (NonEmpty(b) /\ bthreads[b] = 0) =>
            /\ \A i \in 1..MaxPaths : tiles[b][i] = 0
            /\ ~primed[b]

\* C15: every tile that was matched to a background was matched to the
\* reference of the frame it was put into.
C15_MatchedToOwnFrame == bg_matched

\* C16: ingest_one never runs while there is no current frame.
C16_FrameWhenIngesting == ~frameless

\* C17: once the mosaic() of another batch has cleared the flag that
\* cancelled a batch, no task of the cancelled batch puts a tile into a
\* frame.
C17_CancelledStaysCancelled ==
    \A b \in Batches :
        \A k \in 1..Len(workers[b]) : ~workers[b][k].late

\* C18: the completion report of a batch is emitted at most once.
C18_OneCompletionReport ==
    \A b \in Batches : done_reports[b] <= 1

\* the ingestions of batch b that completed, once none is in progress
RECURSIVE SumTiles(_, _)
SumTiles(b, n) == IF n = 0 THEN 0 ELSE tiles[b][n] + SumTiles(b, n - 1)
Successes(b) == SumTiles(b, MaxPaths)

\* C19: at the step that ends a batch of N >= 1 paths (mosaic() and all its
\* tasks are over), the ingested count is the number of tiles of that batch
\* whose ingestion completed.
C19_CountIsSuccesses ==
    [][\A b \in Batches :
          (NonEmpty(b) /\ ~BatchOver(b) /\ BatchOver(b)') =>
              ingest_count' = Successes(b)']_vars

\* C20: a batch creates at most one frame; a batch whose priming step found
\* no frame creates exactly one; and the current frame is only ever replaced
\* by a priming step, which makes it from the image of paths[0] (no task
\* and no ingest_one creates or replaces it).
C20_OneFramePerBatch ==
    /\ [](\A b \in Batches :
            /\ frames_made[b] <= 1
            /\ (dec[b] # NoDec /\ dec[b].frame = NoFrame) =>
                   (mpc[b] = "m227" \/ frames_made[b] = 1))
    /\ [][(frames_made' # frames_made
            \/ (img_mosaic' # img_mosaic /\ img_mosaic' # NoFrame)) =>
              \E b \in Batches :
                  /\ mpc[b] = "m227"
                  /\ mpc'[b] = "m385"
                  /\ img_mosaic' = image[b]
                  /\ frames_made' = [frames_made EXCEPT ![b] = @ + 1]]_vars

\* a batch that found no frame has made one, primed it, and a task of the
\* batch has put a tile into it
C20_Witness ==
    \E b \in Batches :
        /\ frames_made[b] = 1
        /\ Len(workers[b]) >= 1
        /\ workers[b][1].count # Unbound
        /\ img_mosaic # NoFrame
        /\ \A a \in Batches : a # b => mpc[a] = "idle"

\* C21: all the tiles of one batch are put into the frame with the same
\* value of the match_bg setting (read by ingest_one with trim_px, merge and
\* annotate_images), whatever the callbacks set while the batch runs.
C21_OneSettingPerBatch ==
    \A b \in Batches : Cardinality(match_used[b]) <= 1

\* C22: no task divides by a total file count of zero: none is ended by the
\* ZeroDivisionError of float(count)/self.total_files.
C22_NoDivisionByZero ==
    \A b \in Batches :
        \A k \in 1..Len(workers[b]) :
            workers[b][k].exc # "ZeroDivisionError"

\* the owner of self.lock is a task inside its with block
LockHeldInside ==
    lock # NoThread => workers[lock[1]][lock[2]].pc \in {"w334", "w335"}

\* C23: self.lock is held only by a task inside its with block (so a task
\* that has left the block, after a failed ingestion too, has released it),
\* and a task that has come to the with block gets the lock in the end, or
\* is ended by the load of its image.
C23_LockReleased ==
    /\ []LockHeldInside
    /\ \A b \in Batches, k \in 1..MaxPaths :
           (IsWorker(b, k) /\ workers[b][k].pc = "w331") ~>
               (IsWorker(b, k) /\ workers[b][k].pc # "w331")

\* a task holds the lock after the ingestion of another task's tile failed
C23_Witness ==
    \E b \in Batches :
        \E j, k \in 1..Len(workers[b]) :
            /\ j # k
            /\ workers[b][j].i > 1
            /\ tiles[b][workers[b][j].grp[1]] = 0
            /\ workers[b][j].exc = NoExc
            /\ lock = WThread(b, k)

====
